---- MODULE Spec2Model ----
(***************************************************************************)
(* RiskMetric bronze-layer generator (src/generator.py) as a state machine. *)
(*                                                                         *)
(* Units.  Money is kept in integers: stored amounts (rounded to two       *)
(* decimals by the code) are cents; a real-valued draw is kept in a finer  *)
(* unit and rounded to cents by RoundDiv exactly where the code calls      *)
(* round(x, 2).  Timestamps are seconds since START_DATE (2025-01-01).     *)
(* A user_id is the string "USR-" followed by decimal digits, kept as a    *)
(* record of the prefix and the digit sequence; a city is its name in      *)
(* CITIES; None is the string "None".  Catalog positions are 1-based here  *)
(* and 0-based in the source.                                              *)
(***************************************************************************)
EXTENDS Integers, Sequences, FiniteSets

VARIABLES
    NUM_USERS, NUM_TRANSACTIONS, FRAUD_IMPOSSIBLE_TRAVEL,
    FRAUD_VELOCITY_SPIKE_USERS, FRAUD_BEHAVIORAL_DRIFT,
    users,          \* the profile DataFrame, a sequence of profiles
    txns,           \* the list the running generator appends to
    sampled_users,  \* the rows users.sample(...) returned, still to iterate
    base_ts,        \* local base_ts of the injector loop body
    n_micro,        \* local n_micro of inject_velocity_spikes
    legit, impossible, velocity, drift,   \* main's four result lists
    all_txns,       \* main's concatenated, then shuffled list
    df,             \* main's sorted DataFrame
    files,          \* the artifacts written so far
    pc,             \* the function (and place in it) that is running
    todo,           \* the calls the driver still has to make
    rng,            \* calls made on random and on np.random since seeding
    urandom,        \* the entropy pool of the process and the uuids drawn
    stream,         \* what the seeded generators returned, by their state
    run,            \* 1 in the first run of the program, 2 in a second
    first_run,      \* what the first run left behind
    step,           \* run_pipeline: the place main has reached
    started,        \* run_pipeline: the steps begun so far, in order
    returncodes,    \* run_pipeline: the return codes of the subprocesses run
    out,            \* run_pipeline: the errors, warnings and reports printed
    conn,           \* run_pipeline: the connection of export_gold_tables
    copied,         \* run_pipeline: the tables whose COPY was attempted
    exported,       \* run_pipeline: the gold tables written to Parquet
    exit_status     \* run_pipeline: <<>> while running, then <<status>>

cfgVars == <<NUM_USERS, NUM_TRANSACTIONS, FRAUD_IMPOSSIBLE_TRAVEL,
             FRAUD_VELOCITY_SPIKE_USERS, FRAUD_BEHAVIORAL_DRIFT>>
resultVars == <<legit, impossible, velocity, drift>>
localVars == <<txns, sampled_users, base_ts, n_micro>>
asmVars == <<all_txns, df, files>>
sourceVars == <<rng, urandom>>
processVars == <<stream, run, first_run>>
runnerVars == <<step, started, returncodes, out, conn, copied, exported,
                exit_status>>
generatorVars == <<cfgVars, processVars, users, localVars, resultVars, asmVars,
                   pc, todo, sourceVars>>
vars == <<generatorVars, runnerVars>>

(***************************************************************************)
(* Bounds of the model.                                                    *)
(***************************************************************************)
MaxUsers == 2
MaxLegit == 1
MaxPairs == 2
MaxSpikeUsers == 2
MaxDrift == 2
\* the population of a generator called on its own, when it reads no
\* spending parameters
MaxUnitUsers == 2
\* grid points taken inside a continuous range, besides its ends
GridSteps == 4
\* the normal draw is unbounded; z-scores (in hundredths) are taken in -ZMax..ZMax
ZMax == 800
\* the entropy pools of two runs of the program are taken in 0..MaxPool
MaxPool == 1
\* the population of generate_user_profiles called on its own
MaxProfiles == 11

(***************************************************************************)
(* Catalogs and ranges of the generator.                                   *)
(***************************************************************************)
CITIES == << "New York", "London", "Tokyo", "Sydney", "Sao Paulo", "Mumbai",
             "Dubai", "Singapore", "Toronto", "Berlin", "Paris", "Lagos",
             "Mexico City", "Seoul", "Chicago", "Los Angeles", "Shanghai",
             "Moscow", "Cairo", "Istanbul" >>

\* the "lat" and "lon" of the CITIES entries, in 1/10000 of a degree
LAT == << 407128, 515074, 356762, -338688, -235505, 190760, 252048, 13521,
          436532, 525200, 488566, 65244, 194326, 375665, 418781, 340522,
          312304, 557558, 300444, 410082 >>

LON == << -740060, -1278, 1396503, 1512093, -466333, 728777, 552708, 1038198,
          -793832, 134050, 23522, 33792, -991332, 1269780, -876298, -1182437,
          1214737, 376173, 312357, 289784 >>

\* mutation: a catalog whose last pair is London and Paris
PAIRS_WITH_NEIGHBOURS == << <<1, 2>>, <<1, 3>>, <<2, 4>>, <<3, 5>>, <<6, 7>>,
                            <<8, 4>>, <<1, 16>>, <<2, 11>> >>

\* (a, b) of the source is <<a + 1, b + 1>> here
DISTANT_PAIRS == << <<1, 2>>, <<1, 3>>, <<2, 4>>, <<3, 5>>, <<6, 7>>,
                    <<8, 4>>, <<1, 16>>, <<2, 17>> >>

MERCHANT_CATEGORIES == << "Grocery", "Restaurant", "Gas Station",
    "Online Shopping", "Electronics", "Travel", "Entertainment", "Healthcare",
    "Utilities", "Clothing", "Hotel", "ATM Withdrawal", "Wire Transfer",
    "Subscription", "Insurance" >>

DRIFT_CATEGORIES == << "Wire Transfer", "Electronics", "Travel", "Online Shopping" >>

FRAUD_TYPES == {"impossible_travel", "velocity_spike", "behavioral_drift"}

\* mutation: the seconds up to the first day of 2026
SecondsOfFullYear == 365 * 86400

\* int((end_date - start_date).total_seconds()), 2025-01-01 to 2025-12-31
DeltaSeconds == 364 * 86400
\* int(timedelta(days=364).total_seconds()), the injectors' base range
BaseSeconds == 364 * 86400

\* random.uniform(20, 500), in mills (tenths of a cent)
AvgSpendRange == [lo |-> 20000, hi |-> 500000]
\* mutation: the fraction drawn by random.uniform(0.10, 0.40)
StdFractionRangeFromTenth == [lo |-> 1000, hi |-> 4000]
\* random.uniform(0.15, 0.40), in 1/10000
StdFractionRange == [lo |-> 1500, hi |-> 4000]
\* max(0.50, ...), in cents
LegitFloor == 50
\* random.randint(2, 10), minutes
GapMinutesRange == [lo |-> 2, hi |-> 10]
\* random.uniform(10, 2000), in mills
TravelAmountRange == [lo |-> 10000, hi |-> 2000000]
\* random.randint(10, 20)
MicroCountRange == [lo |-> 10, hi |-> 20]
\* mutation: the offset drawn by random.randint(0, 60)
MicroOffsetRangeToSixty == [lo |-> 0, hi |-> 60]
\* random.randint(0, 55), seconds
MicroOffsetRange == [lo |-> 0, hi |-> 55]
\* mutation: the amount drawn by random.uniform(0.00, 2.00)
MicroAmountRangeFromZero == [lo |-> 0, hi |-> 2000]
\* random.uniform(0.01, 2.00), in mills
MicroAmountRange == [lo |-> 10, hi |-> 2000]
\* mutation: the multiplier drawn by random.uniform(3.0, 8.0)
SigmaMultiplierRangeFromThree == [lo |-> 3000, hi |-> 8000]
\* random.uniform(3.5, 8.0), in thousandths
SigmaMultiplierRange == [lo |-> 3500, hi |-> 8000]
\* max(drift_amount, 500.0), in cents
DriftFloor == 50000

(***************************************************************************)
(* Arithmetic.                                                             *)
(***************************************************************************)
Min(a, b) == IF a <= b THEN a ELSE b
Max(a, b) == IF a >= b THEN a ELSE b

\* round(x / q) to the nearest integer, ties to even: Python's round(v, 2)
\* for v = x / (100 * q) dollars, result in cents
RoundDiv(x, q) ==
    LET f == x \div q
        r == x % q
    IN  IF 2 * r < q THEN f
        ELSE IF 2 * r > q THEN f + 1
        ELSE IF f % 2 = 0 THEN f ELSE f + 1

(***************************************************************************)
(* The values a random draw is enumerated over.                            *)
(***************************************************************************)
Ends(R) == {R.lo, R.hi}
Near(R) == {R.lo, R.lo + 1, R.hi - 1, R.hi}
Grid(R, k) == {R.lo + ((R.hi - R.lo) * i) \div k : i \in 0..k}

Pairs(S) == {<<a, b>> : a \in S, b \in S}

\* the row x places after row s of a frame of N rows, wrapping round
Wrap(s, x, N) == ((s - 1 + x) % N) + 1

\* users.sample(n, replace=True): of the sequences of n rows of a frame of
\* N rows, those that repeat one row and the one that walks the frame
\* upwards from its first row
WithReplacement(N, n) ==
    {[i \in 1..n |-> u] : u \in 1..N} \cup {[i \in 1..n |-> Wrap(1, i - 1, N)]}

\* mutation: the burst users sampled with replace=True, one row repeated
RepeatedRow(N, n) == {[i \in 1..n |-> u] : u \in 1..N}

\* users.sample(n, replace=False), n <= N: of the sequences of n distinct
\* rows, those that walk the frame upwards from some row
WithoutReplacement(N, n) == {[i \in 1..n |-> Wrap(s, i - 1, N)] : s \in 1..N}

\* The draws of the full pipeline: one value of each range, and the two
\* ends where the draw decides a count or a window.
CoarseDraws ==
    [ home  |-> {1},
      avg   |-> {AvgSpendRange.lo},
      frac  |-> {StdFractionRange.hi},
      z     |-> {0},
      ts    |-> {0},
      bts   |-> {BaseSeconds},
      cat   |-> {1},
      pair  |-> {1},
      gap   |-> {GapMinutesRange.hi},
      tamts |-> {<<TravelAmountRange.lo, TravelAmountRange.hi>>},
      tcats |-> {<<1, 1>>},
      micro |-> Ends(MicroCountRange),
      offs  |-> {<<MicroOffsetRange.lo, MicroOffsetRange.hi>>},
      vamts |-> {<<MicroAmountRange.lo, MicroAmountRange.hi>>},
      mult  |-> {SigmaMultiplierRange.lo},
      dcat  |-> {1},
      shuf  |-> {"first"} ]

\* The generators that read a profile's spending parameters.
ReadsSpending == {"legit", "drift"}

\* The draws of one generator called on its own: the ends of each range,
\* the neighbours of the ends and a grid inside.  The spending parameters
\* of a profile are enumerated in front of the generators that read them.
RichDraws ==
    [ home  |-> {1, Len(CITIES)},
      avg   |-> IF todo # <<>> /\ Head(todo) \in ReadsSpending
                THEN Near(AvgSpendRange) \cup Grid(AvgSpendRange, GridSteps)
                        \cup {AvgSpendRange.lo + 5, AvgSpendRange.lo + 10,
                              AvgSpendRange.lo + 15}
                ELSE {AvgSpendRange.lo},
      frac  |-> IF todo # <<>> /\ Head(todo) \in ReadsSpending
                THEN Near(StdFractionRange) \cup Grid(StdFractionRange, GridSteps)
                ELSE {StdFractionRange.hi},
      z     |-> Grid([lo |-> -ZMax, hi |-> ZMax], 2 * GridSteps) \cup {-1, 0, 1},
      ts    |-> {0, DeltaSeconds \div 2, DeltaSeconds},
      bts   |-> {0, BaseSeconds \div 2, BaseSeconds},
      cat   |-> {1, Len(MERCHANT_CATEGORIES)},
      pair  |-> 1..Len(DISTANT_PAIRS),
      gap   |-> GapMinutesRange.lo..GapMinutesRange.hi,
      tamts |-> Pairs(Ends(TravelAmountRange) \cup {TravelAmountRange.lo + 5}),
      tcats |-> {<<1, 1>>, <<1, Len(MERCHANT_CATEGORIES)>>},
      micro |-> Near(MicroCountRange),
      offs  |-> Pairs(Near(MicroOffsetRange)),
      vamts |-> Pairs(Ends(MicroAmountRange) \cup {MicroAmountRange.lo + 5}),
      mult  |-> Near(SigmaMultiplierRange) \cup Grid(SigmaMultiplierRange, GridSteps),
      dcat  |-> {1, Len(DRIFT_CATEGORIES)},
      shuf  |-> {"last", "first", "middle"} ]

(***************************************************************************)
(* The sources of randomness.  random and np.random are seeded with 42     *)
(* when the module is loaded; uuid.uuid4() reads os.urandom, which no seed *)
(* reaches.  Faker, seeded too, only draws merchant names, left out here.  *)
(***************************************************************************)
\* the state of the seeded generators right after seeding
Seeded == [random |-> 0, numpy |-> 0]

\* the generators after nRandom calls on random and nNumpy on np.random
Advance(nRandom, nNumpy) ==
    rng' = [random |-> rng.random + nRandom, numpy |-> rng.numpy + nNumpy]

\* str(uuid.uuid4()), the k-th identifier of a process whose entropy pool
\* is e: 122 random bits, taken as never drawn twice by one process
Uuid4(e, k) == <<e, k>>

\* mutation: one identifier drawn per loop iteration and given to all of
\* the records the iteration builds
OneUuidForAll(n) == [i \in 1..n |-> Uuid4(urandom.pool, urandom.uuids + 1)]

\* the identifiers of the next n calls of uuid.uuid4()
NextUuids(n) == [i \in 1..n |-> Uuid4(urandom.pool, urandom.uuids + i)]

Uuids(n) == urandom' = [urandom EXCEPT !.uuids = @ + n]

(***************************************************************************)
(* generate_user_profiles                                                  *)
(***************************************************************************)
\* mutation: the digits of i, least significant first
RECURSIVE DigitsReversed(_)
DigitsReversed(i) ==
    IF i < 10 THEN <<i>> ELSE <<i % 10>> \o DigitsReversed(i \div 10)

\* the decimal digits of i, most significant first
RECURSIVE Digits(_)
Digits(i) == IF i < 10 THEN <<i>> ELSE Append(Digits(i \div 10), i % 10)

\* format(i, "0{width}d"): zeros in front up to the width, never a cut
ZeroPad(i, width) ==
    LET ds  == Digits(i)
        pad == Max(width - Len(ds), 0)
    IN  [k \in 1..(pad + Len(ds)) |-> IF k <= pad THEN 0 ELSE ds[k - pad]]

\* f"USR-{i:06d}"
UserId(i) == [prefix |-> "USR-", digits |-> ZeroPad(i, 6)]

\* the profile of user i: home = random.choice(CITIES), avgMills the
\* uniform(20, 500) draw and frac the uniform(0.15, 0.40) draw
NewProfile(i, home, avgMills, frac) ==
    LET avg_spend == RoundDiv(avgMills, 10)
        std_spend == RoundDiv(avg_spend * frac, 10000)
    IN  [ user_id    |-> UserId(i),
          home_city  |-> CITIES[home],
          avg_amount |-> avg_spend,
          std_amount |-> std_spend ]

\* the driver's next call, or the end of the run
Return ==
    /\ pc' = IF todo = <<>> THEN "done" ELSE Head(todo)
    /\ todo' = IF todo = <<>> THEN <<>> ELSE Tail(todo)

\* one iteration of "for i in range(n_users)"
ProfileStep(d) ==
    /\ pc = "profiles"
    /\ Len(users) < NUM_USERS
    /\ \E home \in d.home, a \in d.avg, f \in d.frac :
          users' = Append(users, NewProfile(Len(users), home, a, f))
    /\ Advance(3, 0)
    /\ UNCHANGED <<cfgVars, runnerVars, processVars, localVars, resultVars, asmVars, pc, todo,
                   urandom>>

\* the loop ends; main saves the frame to user_profiles.parquet
ProfilesReturn ==
    /\ pc = "profiles"
    /\ Len(users) = NUM_USERS
    /\ files' = files \cup {"user_profiles.parquet"}
    /\ Return
    /\ UNCHANGED <<cfgVars, runnerVars, processVars, users, localVars, resultVars, all_txns, df,
                   sourceVars>>

(***************************************************************************)
(* generate_legitimate_transactions                                        *)
(***************************************************************************)
\* mutation: the amount without the max(0.50, ...) floor
LegitAmountNoFloor(user, z) ==
    RoundDiv(user.avg_amount * 100 + user.std_amount * z, 100)

\* max(0.50, round(np.random.normal(avg, std), 2)); the draw is
\* avg + std * z with z the standard normal value, in hundredths
LegitAmount(user, z) ==
    Max(LegitFloor, RoundDiv(user.avg_amount * 100 + user.std_amount * z, 100))

\* mutation: a record that names the user one index past the population
LegitRecordOfNoUser(id, user, z, ts, cat) ==
    [ transaction_id    |-> id,
      user_id           |-> UserId(NUM_USERS),
      timestamp         |-> ts,
      amount            |-> LegitAmount(user, z),
      merchant_category |-> MERCHANT_CATEGORIES[cat],
      city              |-> user.home_city,
      is_fraud          |-> FALSE,
      fraud_type        |-> "None" ]

LegitRecord(id, user, z, ts, cat) ==
    [ transaction_id    |-> id,
      user_id           |-> user.user_id,
      timestamp         |-> ts,
      amount            |-> LegitAmount(user, z),
      merchant_category |-> MERCHANT_CATEGORIES[cat],
      city              |-> user.home_city,
      is_fraud          |-> FALSE,
      fraud_type        |-> "None" ]

\* one iteration of "for _ in range(n_txns)": users.sample(1) picks the row
LegitStep(d) ==
    /\ pc = "legit"
    /\ Len(txns) < NUM_TRANSACTIONS
    /\ \E u \in 1..Len(users), z \in d.z, ts \in d.ts, cat \in d.cat :
          txns' = Append(txns, LegitRecord(NextUuids(1)[1], users[u], z, ts, cat))
    /\ Advance(4, 2)
    /\ Uuids(1)
    /\ UNCHANGED <<cfgVars, runnerVars, processVars, users, sampled_users, base_ts, n_micro,
                   resultVars, asmVars, pc, todo>>

LegitReturn ==
    /\ pc = "legit"
    /\ Len(txns) = NUM_TRANSACTIONS
    /\ legit' = txns
    /\ txns' = <<>>
    /\ Return
    /\ UNCHANGED <<cfgVars, runnerVars, processVars, users, sampled_users, base_ts, n_micro,
                   impossible, velocity, drift, asmVars, sourceVars>>

(***************************************************************************)
(* inject_impossible_travel                                                *)
(***************************************************************************)
\* the number of rows users.sample is asked for: min(n, len(users))
SampleSize(n, frame) == Min(n, Len(frame))

TravelRecord(id, user, city, ts, amtMills, cat) ==
    [ transaction_id    |-> id,
      user_id           |-> user.user_id,
      timestamp         |-> ts,
      amount            |-> RoundDiv(amtMills, 10),
      merchant_category |-> MERCHANT_CATEGORIES[cat],
      city              |-> CITIES[city],
      is_fraud          |-> TRUE,
      fraud_type        |-> "impossible_travel" ]

\* mutation: the gap applied as timedelta(seconds = idx * gap_minutes)
TravelPairGapInSeconds(ids, user, pair, base, gap, amts, cats) ==
    << TravelRecord(ids[1], user, DISTANT_PAIRS[pair][1], base + 0 * gap,
                    amts[1], cats[1]),
       TravelRecord(ids[2], user, DISTANT_PAIRS[pair][2], base + 1 * gap,
                    amts[2], cats[2]) >>

\* the two records of one trial: enumerate([city_a, city_b]) with
\* ts = base_ts + timedelta(minutes = idx * gap_minutes)
TravelPair(ids, user, pair, base, gap, amts, cats) ==
    << TravelRecord(ids[1], user, DISTANT_PAIRS[pair][1], base + 0 * gap * 60,
                    amts[1], cats[1]),
       TravelRecord(ids[2], user, DISTANT_PAIRS[pair][2], base + 1 * gap * 60,
                    amts[2], cats[2]) >>

\* sampled_users = users.sample(n = min(n_pairs, len(users)), replace = True)
TravelSample ==
    /\ pc = "impossible"
    /\ sampled_users' \in
          WithReplacement(Len(users), SampleSize(FRAUD_IMPOSSIBLE_TRAVEL, users))
    /\ pc' = "impossible_loop"
    /\ Advance(0, 1)
    /\ UNCHANGED <<cfgVars, runnerVars, processVars, users, txns, base_ts, n_micro, resultVars,
                   asmVars, todo, urandom>>

\* one iteration of "for _, user in sampled_users.iterrows()"
TravelStep(d) ==
    /\ pc = "impossible_loop"
    /\ sampled_users # <<>>
    /\ \E pair \in d.pair, base \in d.bts, gap \in d.gap,
          amts \in d.tamts, cats \in d.tcats :
          /\ txns' = txns \o TravelPair(NextUuids(2), users[Head(sampled_users)],
                                        pair, base, gap, amts, cats)
          /\ base_ts' = base
    /\ sampled_users' = Tail(sampled_users)
    /\ Advance(11, 0)
    /\ Uuids(2)
    /\ UNCHANGED <<cfgVars, runnerVars, processVars, users, n_micro, resultVars, asmVars, pc, todo>>

TravelReturn ==
    /\ pc = "impossible_loop"
    /\ sampled_users = <<>>
    /\ impossible' = txns
    /\ txns' = <<>>
    /\ Return
    /\ UNCHANGED <<cfgVars, runnerVars, processVars, users, sampled_users, base_ts, n_micro,
                   legit, velocity, drift, asmVars, sourceVars>>

(***************************************************************************)
(* inject_velocity_spikes                                                  *)
(***************************************************************************)
MicroRecord(id, user, city, ts, amtMills) ==
    [ transaction_id    |-> id,
      user_id           |-> user.user_id,
      timestamp         |-> ts,
      amount            |-> RoundDiv(amtMills, 10),
      merchant_category |-> "Online Shopping",
      city              |-> CITIES[city],
      is_fraud          |-> TRUE,
      fraud_type        |-> "velocity_spike" ]

\* "for i in range(n_micro)": record i draws its own offset and amount; the
\* draws of the odd and of the even iterations are offs[1], amts[1] and
\* offs[2], amts[2]
MicroBurst(ids, user, base, n, city, offs, amts) ==
    [ i \in 1..n |->
        MicroRecord(ids[i], user, city, base + offs[2 - (i % 2)], amts[2 - (i % 2)]) ]

\* sampled_users = users.sample(n = min(n_users, len(users)), replace = False)
VelocitySample ==
    /\ pc = "velocity"
    /\ sampled_users' \in
          WithoutReplacement(Len(users), SampleSize(FRAUD_VELOCITY_SPIKE_USERS, users))
    /\ pc' = "velocity_loop"
    /\ Advance(0, 1)
    /\ UNCHANGED <<cfgVars, runnerVars, processVars, users, txns, base_ts, n_micro, resultVars,
                   asmVars, todo, urandom>>

\* one iteration of "for _, user in sampled_users.iterrows()": one burst
VelocityStep(d) ==
    /\ pc = "velocity_loop"
    /\ sampled_users # <<>>
    /\ \E base \in d.bts, n \in d.micro, city \in d.home,
          offs \in d.offs, amts \in d.vamts :
          /\ txns' = txns \o MicroBurst(NextUuids(n), users[Head(sampled_users)],
                                        base, n, city, offs, amts)
          /\ base_ts' = base
          /\ n_micro' = n
          /\ Advance(3 + 4 * n, 0)
          /\ Uuids(n)
    /\ sampled_users' = Tail(sampled_users)
    /\ UNCHANGED <<cfgVars, runnerVars, processVars, users, resultVars, asmVars, pc, todo>>

VelocityReturn ==
    /\ pc = "velocity_loop"
    /\ sampled_users = <<>>
    /\ velocity' = txns
    /\ txns' = <<>>
    /\ Return
    /\ UNCHANGED <<cfgVars, runnerVars, processVars, users, sampled_users, base_ts, n_micro,
                   legit, impossible, drift, asmVars, sourceVars>>

(***************************************************************************)
(* inject_behavioral_drift                                                 *)
(***************************************************************************)
\* round(avg + sigma_multiplier * std, 2), then max(drift_amount, 500.0);
\* mult is the uniform(3.5, 8.0) draw in thousandths
\* mutation: the drift amount without its floor
DriftAmountNoFloor(user, mult) ==
    RoundDiv(user.avg_amount * 1000 + mult * user.std_amount, 1000)

DriftAmount(user, mult) ==
    Max(RoundDiv(user.avg_amount * 1000 + mult * user.std_amount, 1000), DriftFloor)

\* mutation: a drift record flagged as fraud and left without its tag
DriftRecordUntagged(id, user, mult, ts, cat) ==
    [ transaction_id    |-> id,
      user_id           |-> user.user_id,
      timestamp         |-> ts,
      amount            |-> DriftAmount(user, mult),
      merchant_category |-> DRIFT_CATEGORIES[cat],
      city              |-> user.home_city,
      is_fraud          |-> TRUE,
      fraud_type        |-> "None" ]

DriftRecord(id, user, mult, ts, cat) ==
    [ transaction_id    |-> id,
      user_id           |-> user.user_id,
      timestamp         |-> ts,
      amount            |-> DriftAmount(user, mult),
      merchant_category |-> DRIFT_CATEGORIES[cat],
      city              |-> user.home_city,
      is_fraud          |-> TRUE,
      fraud_type        |-> "behavioral_drift" ]

\* sampled_users = users.sample(n = min(n_txns, len(users)), replace = True)
DriftSample ==
    /\ pc = "drift"
    /\ sampled_users' \in
          WithReplacement(Len(users), SampleSize(FRAUD_BEHAVIORAL_DRIFT, users))
    /\ pc' = "drift_loop"
    /\ Advance(0, 1)
    /\ UNCHANGED <<cfgVars, runnerVars, processVars, users, txns, base_ts, n_micro, resultVars,
                   asmVars, todo, urandom>>

\* one iteration of "for _, user in sampled_users.iterrows()"
DriftStep(d) ==
    /\ pc = "drift_loop"
    /\ sampled_users # <<>>
    /\ \E m \in d.mult, ts \in d.bts, cat \in d.dcat :
          txns' = Append(txns, DriftRecord(NextUuids(1)[1],
                                           users[Head(sampled_users)], m, ts, cat))
    /\ sampled_users' = Tail(sampled_users)
    /\ Advance(5, 0)
    /\ Uuids(1)
    /\ UNCHANGED <<cfgVars, runnerVars, processVars, users, base_ts, n_micro, resultVars, asmVars, pc, todo>>

DriftReturn ==
    /\ pc = "drift_loop"
    /\ sampled_users = <<>>
    /\ drift' = txns
    /\ txns' = <<>>
    /\ Return
    /\ UNCHANGED <<cfgVars, runnerVars, processVars, users, sampled_users, base_ts, n_micro,
                   legit, impossible, velocity, asmVars, sourceVars>>

(***************************************************************************)
(* main: the assembler                                                     *)
(***************************************************************************)
Swap(x, i, j) == [x EXCEPT ![i] = x[j], ![j] = x[i]]

\* the index random.shuffle draws for position i (1-based, j in 1..i)
ShuffleIndex(mode, i) ==
    CASE mode = "last"   -> i
      [] mode = "first"  -> 1
      [] mode = "middle" -> (i + 1) \div 2

\* random.shuffle: for i from the last position down to the second,
\* swap x[i] with x[j], j drawn in 1..i
RECURSIVE FisherYates(_, _, _)
FisherYates(x, i, mode) ==
    IF i < 2 THEN x
    ELSE FisherYates(Swap(x, i, ShuffleIndex(mode, i)), i - 1, mode)

\* a < b for two strings given by their characters, compared from place k
\* on: the order of the first place where they differ, a proper prefix
\* coming first
RECURSIVE StringLess(_, _, _)
StringLess(a, b, k) ==
    IF k > Len(a) \/ k > Len(b) THEN Len(a) < Len(b)
    ELSE IF a[k] = b[k] THEN StringLess(a, b, k + 1)
    ELSE a[k] < b[k]

\* the sort key of sort_values(["user_id", "timestamp"]): user_id is
\* compared as a string, timestamp as a time
KeyLeq(a, b) ==
    IF a.user_id = b.user_id THEN a.timestamp <= b.timestamp
    ELSE StringLess(a.user_id.digits, b.user_id.digits, 1)

\* the number of rows of the sorted s whose key is <= r's, the rows in
\* front of lo being known to be so and the rows behind hi not to be
RECURSIVE RowsBefore(_, _, _, _)
RowsBefore(s, r, lo, hi) ==
    IF lo > hi THEN hi
    ELSE LET mid == (lo + hi) \div 2
         IN  IF KeyLeq(s[mid], r) THEN RowsBefore(s, r, mid + 1, hi)
             ELSE RowsBefore(s, r, lo, mid - 1)

\* mutation: the frame left in the order of the list, not sorted
InsertRowLast(s, r) == Append(s, r)

\* r put behind every row of the sorted s whose key is <= r's
InsertRow(s, r) ==
    LET before == RowsBefore(s, r, 1, Len(s))
    IN  SubSeq(s, 1, before) \o <<r>> \o SubSeq(s, before + 1, Len(s))

\* the rows s[lo], ..., s[hi] inserted into sorted one after the other, the
\* first half of them before the second
RECURSIVE InsertRows(_, _, _, _)
InsertRows(sorted, s, lo, hi) ==
    IF lo > hi THEN sorted
    ELSE IF lo = hi THEN InsertRow(sorted, s[lo])
    ELSE LET mid == (lo + hi) \div 2
             front == InsertRows(sorted, s, lo, mid)
         IN  IF front = <<>> THEN front ELSE InsertRows(front, s, mid + 1, hi)

\* sort_values on several keys is a stable sort: rows of equal key keep
\* the order they had
SortValues(s) == InsertRows(<<>>, s, 1, Len(s))

\* mutation: the drift list left out of the concatenation
ConcatWithoutDrift ==
    /\ pc = "assemble"
    /\ all_txns' = legit \o impossible \o velocity
    /\ pc' = "shuffle"
    /\ UNCHANGED <<cfgVars, runnerVars, processVars, users, localVars, resultVars, df, files, todo,
                   sourceVars>>

\* all_txns = legit + impossible + velocity + drift
Concat ==
    /\ pc = "assemble"
    /\ all_txns' = legit \o impossible \o velocity \o drift
    /\ pc' = "shuffle"
    /\ UNCHANGED <<cfgVars, runnerVars, processVars, users, localVars, resultVars, df, files, todo,
                   sourceVars>>

\* random.shuffle(all_txns)
Shuffle(d) ==
    /\ pc = "shuffle"
    /\ \E mode \in d.shuf : all_txns' = FisherYates(all_txns, Len(all_txns), mode)
    /\ pc' = "sort"
    /\ Advance(Max(Len(all_txns) - 1, 0), 0)
    /\ UNCHANGED <<cfgVars, runnerVars, processVars, users, localVars, resultVars, df, files, todo,
                   urandom>>

\* df = pd.DataFrame(all_txns).sort_values([...]).reset_index(drop=True);
\* the frame of an empty list has no columns, see SortRaise
Sort ==
    /\ pc = "sort"
    /\ all_txns # <<>>
    /\ df' = SortValues(all_txns)
    /\ pc' = "write"
    /\ UNCHANGED <<cfgVars, runnerVars, processVars, users, localVars, resultVars, all_txns, files,
                   todo, sourceVars>>

\* df.to_parquet(OUTPUT_FILE)
WriteOutput ==
    /\ pc = "write"
    /\ files' = files \cup {"raw_transactions.parquet"}
    /\ Return
    /\ UNCHANGED <<cfgVars, runnerVars, processVars, users, localVars, resultVars, all_txns, df,
                   sourceVars>>

(***************************************************************************)
(* Specifications                                                          *)
(***************************************************************************)
\* the calls of main between generate_user_profiles and the end, in the
\* order of the source
\* mutation: the lists are merged before the drift injector has run
MergeBeforeDrift == <<"legit", "impossible", "velocity", "assemble", "drift">>

MainOrder == <<"legit", "impossible", "velocity", "drift", "assemble">>

Blank ==
    /\ users = <<>>
    /\ txns = <<>>
    /\ sampled_users = <<>>
    /\ base_ts = 0
    /\ n_micro = 0
    /\ legit = <<>>
    /\ impossible = <<>>
    /\ velocity = <<>>
    /\ drift = <<>>
    /\ all_txns = <<>>
    /\ df = <<>>
    /\ files = {}
    /\ pc = "profiles"
    /\ rng = Seeded
    /\ step = "run_generator"
    /\ started = <<>>
    /\ returncodes = <<>>
    /\ out = <<>>
    /\ conn = "none"
    /\ copied = <<>>
    /\ exported = {}
    /\ exit_status = <<>>

\* a single run of the program, its entropy pool named 0
OneRun ==
    /\ urandom = [pool |-> 0, uuids |-> 0]
    /\ stream = {}
    /\ run = 1
    /\ first_run = <<>>

\* main(), for every population size and every target count up to the bounds
Init ==
    /\ NUM_USERS \in 1..MaxUsers
    /\ NUM_TRANSACTIONS \in 1..MaxLegit
    /\ FRAUD_IMPOSSIBLE_TRAVEL \in 1..MaxPairs
    /\ FRAUD_VELOCITY_SPIKE_USERS \in 1..MaxSpikeUsers
    /\ FRAUD_BEHAVIORAL_DRIFT \in 1..MaxDrift
    /\ todo = MainOrder
    /\ Blank
    /\ OneRun

Run(d) ==
    \/ ProfileStep(d)
    \/ ProfilesReturn
    \/ LegitStep(d)
    \/ LegitReturn
    \/ TravelSample
    \/ TravelStep(d)
    \/ TravelReturn
    \/ VelocitySample
    \/ VelocityStep(d)
    \/ VelocityReturn
    \/ DriftSample
    \/ DriftStep(d)
    \/ DriftReturn
    \/ Concat
    \/ Shuffle(d)
    \/ Sort
    \/ WriteOutput

Next == Run(CoarseDraws)

Spec == Init /\ [][Next]_vars

\* One generator called on its own: generate_user_profiles, then one of the
\* four generators with a target count of 1, then the assembler.
GENERATORS == {"legit", "impossible", "velocity", "drift"}

InitUnit ==
    /\ todo \in {<<g, "assemble">> : g \in GENERATORS}
    /\ NUM_USERS \in IF Head(todo) \in ReadsSpending THEN {1} ELSE 1..MaxUnitUsers
    /\ NUM_TRANSACTIONS = 1
    /\ FRAUD_IMPOSSIBLE_TRAVEL = 1
    /\ FRAUD_VELOCITY_SPIKE_USERS = 1
    /\ FRAUD_BEHAVIORAL_DRIFT = 1
    /\ Blank
    /\ OneRun

NextUnit ==
    \/ ProfileStep(RichDraws)
    \/ ProfilesReturn
    \/ LegitStep(RichDraws)
    \/ LegitReturn
    \/ TravelSample
    \/ TravelStep(RichDraws)
    \/ TravelReturn
    \/ VelocitySample
    \/ VelocityStep(RichDraws)
    \/ VelocityReturn
    \/ DriftSample
    \/ DriftStep(RichDraws)
    \/ DriftReturn
    \/ Concat
    \/ Shuffle(RichDraws)
    \/ Sort
    \/ WriteOutput

SpecUnit == InitUnit /\ [][NextUnit]_vars

\* The draws of a run whose records meet in the assembler: timestamps
\* drawn at the two ends of their window (and, for a legitimate record, in
\* its middle), so that records of several lists share a user and a
\* timestamp, and every shuffle.
MeetingDraws ==
    [ CoarseDraws EXCEPT
        !.ts   = {0, DeltaSeconds \div 2, DeltaSeconds},
        !.bts  = {0, BaseSeconds},
        !.offs = {<<MicroOffsetRange.lo, MicroOffsetRange.lo>>,
                  <<MicroOffsetRange.lo, MicroOffsetRange.hi>>},
        !.shuf = {"last", "first", "middle"} ]

\* main() with a target count of 1 for each of the four lists
InitAssemble ==
    /\ NUM_USERS \in 1..MaxUnitUsers
    /\ NUM_TRANSACTIONS = 1
    /\ FRAUD_IMPOSSIBLE_TRAVEL = 1
    /\ FRAUD_VELOCITY_SPIKE_USERS = 1
    /\ FRAUD_BEHAVIORAL_DRIFT = 1
    /\ todo = MainOrder
    /\ Blank
    /\ OneRun

NextAssemble == Run(MeetingDraws)

SpecAssemble == InitAssemble /\ [][NextAssemble]_vars

\* generate_user_profiles called on its own, for populations whose indices
\* have one digit or two; the home city is drawn among two
ProfileDraws == [CoarseDraws EXCEPT !.home = {1, Len(CITIES)}]

InitProfiles ==
    /\ NUM_USERS \in 1..MaxProfiles
    /\ NUM_TRANSACTIONS = 1
    /\ FRAUD_IMPOSSIBLE_TRAVEL = 1
    /\ FRAUD_VELOCITY_SPIKE_USERS = 1
    /\ FRAUD_BEHAVIORAL_DRIFT = 1
    /\ todo = <<>>
    /\ Blank
    /\ OneRun

NextProfiles == ProfileStep(ProfileDraws) \/ ProfilesReturn

SpecProfiles == InitProfiles /\ [][NextProfiles]_vars

(***************************************************************************)
(* Configurations the spec calls invalid: a population or a target count   *)
(* of zero.  The source has no check of its configuration; a run ends      *)
(* early only where a library call raises.                                 *)
(***************************************************************************)
\* an exception nobody catches ends the process
Raise ==
    /\ pc' = "error"
    /\ todo' = <<>>

\* users.sample(1) on a frame without rows raises ValueError
LegitRaise ==
    /\ pc = "legit"
    /\ Len(txns) < NUM_TRANSACTIONS
    /\ users = <<>>
    /\ Raise
    /\ UNCHANGED <<cfgVars, runnerVars, processVars, users, localVars, resultVars, asmVars,
                   sourceVars>>

\* pd.DataFrame([]) has no columns: df["timestamp"] raises KeyError
SortRaise ==
    /\ pc = "sort"
    /\ all_txns = <<>>
    /\ Raise
    /\ UNCHANGED <<cfgVars, runnerVars, processVars, users, localVars, resultVars, asmVars,
                   sourceVars>>

InitConfig ==
    /\ NUM_USERS \in 0..1
    /\ NUM_TRANSACTIONS \in 0..1
    /\ FRAUD_IMPOSSIBLE_TRAVEL \in 0..1
    /\ FRAUD_VELOCITY_SPIKE_USERS \in 0..1
    /\ FRAUD_BEHAVIORAL_DRIFT \in 0..1
    /\ todo = MainOrder
    /\ Blank
    /\ OneRun

NextConfig == Run(CoarseDraws) \/ LegitRaise \/ SortRaise

SpecConfig == InitConfig /\ [][NextConfig]_vars

(***************************************************************************)
(* Two runs of the program.  What a seeded generator returns is a function *)
(* of the state it is in; stream holds that function as far as it has     *)
(* been read.  Each run starts from the seeded state and from an entropy   *)
(* pool of its own.                                                        *)
(***************************************************************************)
\* what a seeded generator returns in one state, as far as a step's draws
\* tell it apart: the step's draws at one end of their ranges or the other
SeededOutputs == {0, 1}

\* the entropy pools a process may find
Pools == 0..MaxPool

\* the seeded generators have been read before in the state they are in
Known == \E p \in stream : p[1] = rng

\* mutation: generators seeded from the entropy pool, random.seed()
OutputOfEntropy == ((CHOOSE p \in stream : p[1] = rng)[2] + urandom.pool) % 2

\* what the generators, seeded with 42, return in the state they are in
Output == (CHOOSE p \in stream : p[1] = rng)[2]

\* the draws of a step that finds the seeded generators returning x
SeededDraws(x) ==
    LET Of(R) == {IF x = 0 THEN R.lo ELSE R.hi}
        Flip(R) == {IF x = 0 THEN <<R.lo, R.hi>> ELSE <<R.hi, R.lo>>}
        Among(n) == {IF x = 0 THEN 1 ELSE n}
    IN  [ home  |-> Among(Len(CITIES)),
          avg   |-> Of(AvgSpendRange),
          frac  |-> Of(StdFractionRange),
          z     |-> {IF x = 0 THEN -100 ELSE 100},
          ts    |-> {IF x = 0 THEN 0 ELSE DeltaSeconds},
          bts   |-> {IF x = 0 THEN 0 ELSE BaseSeconds},
          cat   |-> Among(Len(MERCHANT_CATEGORIES)),
          pair  |-> Among(Len(DISTANT_PAIRS)),
          gap   |-> Of(GapMinutesRange),
          tamts |-> Flip(TravelAmountRange),
          tcats |-> {<<1, IF x = 0 THEN 1 ELSE Len(MERCHANT_CATEGORIES)>>},
          micro |-> Of(MicroCountRange),
          offs  |-> Flip(MicroOffsetRange),
          vamts |-> Flip(MicroAmountRange),
          mult  |-> Of(SigmaMultiplierRange),
          dcat  |-> Among(Len(DRIFT_CATEGORIES)),
          shuf  |-> {IF x = 0 THEN "first" ELSE "middle"} ]

\* the rows users.sample(n) returns from a frame of N rows when np.random
\* returns x: the row x places after the first, and with replace=False the
\* rows behind it
SeededRows(x, N, n, replace) ==
    [i \in 1..n |-> IF replace THEN Wrap(1, x, N) ELSE Wrap(1, x + i - 1, N)]

\* the seeded generators are read in a state they were not read in before
Reveal ==
    /\ pc \notin {"assemble", "sort", "write", "done"}
    /\ ~Known
    /\ \E x \in SeededOutputs : stream' = stream \cup {<<rng, x>>}
    /\ UNCHANGED <<cfgVars, runnerVars, run, first_run, users, localVars, resultVars, asmVars,
                   pc, todo, sourceVars>>

ProfileStepSeeded == Known /\ ProfileStep(SeededDraws(Output))

LegitStepSeeded ==
    /\ Known
    /\ LegitStep(SeededDraws(Output))
    /\ txns'[Len(txns')].user_id = users[Wrap(1, Output, Len(users))].user_id

TravelSampleSeeded ==
    /\ Known
    /\ TravelSample
    /\ sampled_users' = SeededRows(Output, Len(users),
                                   SampleSize(FRAUD_IMPOSSIBLE_TRAVEL, users), TRUE)

TravelStepSeeded == Known /\ TravelStep(SeededDraws(Output))

VelocitySampleSeeded ==
    /\ Known
    /\ VelocitySample
    /\ sampled_users' = SeededRows(Output, Len(users),
                                   SampleSize(FRAUD_VELOCITY_SPIKE_USERS, users), FALSE)

VelocityStepSeeded == Known /\ VelocityStep(SeededDraws(Output))

DriftSampleSeeded ==
    /\ Known
    /\ DriftSample
    /\ sampled_users' = SeededRows(Output, Len(users),
                                   SampleSize(FRAUD_BEHAVIORAL_DRIFT, users), TRUE)

DriftStepSeeded == Known /\ DriftStep(SeededDraws(Output))

ShuffleSeeded == Known /\ Shuffle(SeededDraws(Output))

\* the program is started again: the module is loaded, the generators are
\* seeded, main runs its calls in the given order; the files of the first
\* run are still there
StartAgain(order) ==
    /\ pc = "done"
    /\ run = 1
    /\ run' = 2
    /\ first_run' = [legit |-> legit, impossible |-> impossible,
                     velocity |-> velocity, drift |-> drift, df |-> df]
    /\ users' = <<>>
    /\ txns' = <<>>
    /\ sampled_users' = <<>>
    /\ base_ts' = 0
    /\ n_micro' = 0
    /\ legit' = <<>>
    /\ impossible' = <<>>
    /\ velocity' = <<>>
    /\ drift' = <<>>
    /\ all_txns' = <<>>
    /\ df' = <<>>
    /\ pc' = "profiles"
    /\ todo' = order
    /\ rng' = Seeded
    /\ \E e \in Pools : urandom' = [pool |-> e, uuids |-> 0]
    /\ UNCHANGED <<cfgVars, runnerVars, stream, files>>

Restart == StartAgain(MainOrder)

InitTwin ==
    /\ NUM_USERS \in 1..MaxUnitUsers
    /\ NUM_TRANSACTIONS = 1
    /\ FRAUD_IMPOSSIBLE_TRAVEL = 1
    /\ FRAUD_VELOCITY_SPIKE_USERS = 1
    /\ FRAUD_BEHAVIORAL_DRIFT = 1
    /\ todo = MainOrder
    /\ Blank
    /\ urandom \in {[pool |-> e, uuids |-> 0] : e \in Pools}
    /\ stream = {}
    /\ run = 1
    /\ first_run = <<>>

\* the steps of a run whose draws are the seeded generators' outputs
RunSeeded ==
    \/ Reveal
    \/ ProfileStepSeeded
    \/ ProfilesReturn
    \/ LegitStepSeeded
    \/ LegitReturn
    \/ TravelSampleSeeded
    \/ TravelStepSeeded
    \/ TravelReturn
    \/ VelocitySampleSeeded
    \/ VelocityStepSeeded
    \/ VelocityReturn
    \/ DriftSampleSeeded
    \/ DriftStepSeeded
    \/ DriftReturn
    \/ Concat
    \/ ShuffleSeeded
    \/ Sort
    \/ WriteOutput

NextTwin == RunSeeded \/ Restart

SpecTwin == InitTwin /\ [][NextTwin]_vars

\* The stages of main called in another order in the second run.
Orders ==
    { MainOrder,
      <<"impossible", "legit", "velocity", "drift", "assemble">>,
      <<"legit", "impossible", "drift", "velocity", "assemble">> }

RestartReordered == \E order \in Orders : StartAgain(order)

NextReorder == RunSeeded \/ RestartReordered

InitReorder == InitTwin /\ NUM_USERS = 1

SpecReorder == InitReorder /\ [][NextReorder]_vars

(***************************************************************************)
(* Properties                                                              *)
(***************************************************************************)
Range(s) == {s[i] : i \in 1..Len(s)}

\* the profile a record's user_id refers to
Owner(r) == CHOOSE u \in Range(users) : u.user_id = r.user_id

\* P holds of every record there is: in the running generator's list, in
\* the four results, in the concatenated list and in the output
EveryRecord(P(_)) ==
    \A s \in {txns, legit, impossible, velocity, drift, all_txns, df} :
        \A i \in 1..Len(s) : P(s[i])

\* C1: when the run is done, the output holds as many records as
\* legitimate count + 2 * impossible-travel pairs + the sum of the burst
\* sizes (the length of the velocity list) + drift count.
C1_OutputCount ==
    pc = "done" =>
        Len(df) = NUM_TRANSACTIONS + 2 * FRAUD_IMPOSSIBLE_TRAVEL
                    + Len(velocity) + FRAUD_BEHAVIORAL_DRIFT

\* C2: inject_impossible_travel(users, P) returns exactly 2 * P records,
\* all tagged impossible_travel, also when P exceeds the population.
C2_TravelReturnsTwoPerTrial ==
    impossible # <<>> =>
        /\ Len(impossible) = 2 * FRAUD_IMPOSSIBLE_TRAVEL
        /\ \A r \in Range(impossible) : r.fraud_type = "impossible_travel"

\* C3: inject_behavioral_drift(users, D) returns exactly D records, all
\* tagged behavioral_drift, also when D exceeds the population.
C3_DriftReturnsOnePerTrial ==
    drift # <<>> =>
        /\ Len(drift) = FRAUD_BEHAVIORAL_DRIFT
        /\ \A r \in Range(drift) : r.fraud_type = "behavioral_drift"

\* C4: in every record, is_fraud holds exactly when fraud_type is one of
\* the three archetypes, and fraud_type is None when is_fraud is false.
FlagMatchesTag(r) ==
    /\ r.is_fraud <=> r.fraud_type \in FRAUD_TYPES
    /\ ~r.is_fraud => r.fraud_type = "None"

C4_FlagMatchesTag == EveryRecord(FlagMatchesTag)

\* C4 witness: a finished output with a legitimate record and a record of
\* each archetype.
C4_Witness ==
    /\ pc = "done"
    /\ \E r \in Range(df) : ~r.is_fraud
    /\ \A t \in FRAUD_TYPES : \E r \in Range(df) : r.is_fraud /\ r.fraud_type = t

\* the behavioral-drift records produced so far
DriftRecords ==
    Range(drift) \cup {r \in Range(txns) : r.fraud_type = "behavioral_drift"}

\* C5: every behavioral-drift record's amount exceeds its owner's
\* avg_amount + 3 * std_amount (cents on both sides).
C5_DriftAboveThreeSigma ==
    \A r \in DriftRecords :
        r.amount > Owner(r).avg_amount + 3 * Owner(r).std_amount

\* C5 witness: a drift record above the 500 floor, of a user whose
\* avg + 3 * std is itself above the floor.
C5_Witness ==
    \E r \in Range(drift) :
        /\ r.amount > DriftFloor
        /\ Owner(r).avg_amount + 3 * Owner(r).std_amount > DriftFloor

\* the velocity-spike records produced so far
VelocityRecords == IF pc = "velocity_loop" THEN txns ELSE velocity

\* C6: the velocity records of a user form one burst of 10 to 20 records
\* of one city and category "Online Shopping" whose timestamps differ by
\* less than 60 seconds; the records of the burst just built lie 0 to 55
\* seconds after its base timestamp.
C6_BurstShape ==
    LET V == VelocityRecords
        n == Len(V)
    IN  /\ \A k \in 1..Len(users) :
              LET burst == {i \in 1..n : V[i].user_id = users[k].user_id}
                  times == {V[i].timestamp : i \in burst}
                  cities == {V[i].city : i \in burst}
                  categories == {V[i].merchant_category : i \in burst}
              IN  \/ burst = {}
                  \/ /\ Cardinality(burst) \in 10..20
                     /\ Cardinality(cities) = 1
                     /\ categories = {"Online Shopping"}
                     /\ \A a, b \in times : a - b < 60
        /\ pc = "velocity_loop" /\ txns # <<>> =>
              \A i \in (n - n_micro + 1)..n : V[i].timestamp - base_ts \in 0..55

\* C6 witness: two bursts returned, one of 10 and one of 20 records, with
\* two records of one burst 55 seconds apart.
C6_Witness ==
    /\ Len(velocity) = 30
    /\ \E i, j \in 1..Len(velocity) :
          /\ velocity[i].user_id = velocity[j].user_id
          /\ velocity[i].timestamp - velocity[j].timestamp = 55

\* the impossible-travel records produced so far
TravelRecords == IF pc = "impossible_loop" THEN txns ELSE impossible

\* C7: the impossible-travel records come in pairs of one user, in the
\* first and the second city of one catalog pair, the second a whole
\* number of minutes, 2 to 10, after the first.
C7_TravelPairShape ==
    /\ Len(TravelRecords) % 2 = 0
    /\ \A k \in 1..(Len(TravelRecords) \div 2) :
          LET a == TravelRecords[2 * k - 1]
              b == TravelRecords[2 * k]
          IN  /\ a.user_id = b.user_id
              /\ \E p \in 1..Len(DISTANT_PAIRS) :
                    /\ a.city = CITIES[DISTANT_PAIRS[p][1]]
                    /\ b.city = CITIES[DISTANT_PAIRS[p][2]]
              /\ \E g \in 2..10 : b.timestamp = a.timestamp + 60 * g

\* C7 witness: a returned pair ten minutes apart, of the second user.
C7_Witness ==
    /\ Len(impossible) = 2
    /\ impossible[1].user_id = UserId(1)
    /\ impossible[2].timestamp = impossible[1].timestamp + 600

\* C8: every profile has avg_amount > 0 and a std_amount strictly between
\* 0.15 and 0.40 times avg_amount (stored values, in cents).
C8_StdStrictlyInside ==
    \A p \in Range(users) :
        /\ p.avg_amount > 0
        /\ 15 * p.avg_amount < 100 * p.std_amount
        /\ 100 * p.std_amount < 40 * p.avg_amount

\* C8 as amended: every profile has avg_amount > 0 and a std_amount less
\* than one cent outside the interval from 0.15 to 0.40 times avg_amount.
C8_StdInsideUpToRounding ==
    \A p \in Range(users) :
        /\ p.avg_amount > 0
        /\ 15 * p.avg_amount - 100 < 100 * p.std_amount
        /\ 100 * p.std_amount < 40 * p.avg_amount + 100

\* C8 witness: a profile whose rounded std_amount is below 0.15 times its
\* avg_amount (20.01 * 0.1501 = 3.0035 is stored as 3.00 < 3.0015).
C8_Witness ==
    \E p \in Range(users) :
        /\ pc = "done"
        /\ 100 * p.std_amount < 15 * p.avg_amount

\* C9: every record of the output has an amount of at least the 0.50 floor.
C9_AmountAtLeastFloor ==
    \A r \in Range(df) : r.amount >= 50

\* C9 as amended: every record of the output that is not a velocity-spike
\* record has an amount of at least 0.50, and a velocity-spike record has
\* an amount of at least 0.01.
C9_AmountAtLeastFloorButMicro ==
    \A r \in Range(df) :
        IF r.fraud_type = "velocity_spike" THEN r.amount >= 1 ELSE r.amount >= 50

\* C9 witness: an output with a velocity-spike record below 0.50, and one
\* with a legitimate record at the floor.
C9_Witness ==
    /\ pc = "done"
    /\ \E r \in Range(df) :
          \/ r.fraud_type = "velocity_spike" /\ r.amount < 50
          \/ r.fraud_type = "None" /\ r.amount = 50

\* C10: no record has a zero or negative amount.
AmountPositive(r) == r.amount > 0

C10_AmountPositive == EveryRecord(AmountPositive)

\* C10 witness: an output with a legitimate record whose normal draw was
\* negative (20.00 - 8 * 3.00), so that the floor gave its amount.
C10_Witness ==
    /\ pc = "done"
    /\ \E r \in Range(df) :
          /\ ~r.is_fraud
          /\ r.amount = LegitFloor
          /\ Owner(r).avg_amount = 2000
          /\ Owner(r).std_amount = 300

\* the number of rows of s equal to r
Count(s, r) == Cardinality({i \in 1..Len(s) : s[i] = r})

\* s and t hold the same rows, each as many times; the rows need counting
\* only where t holds a row twice
SameRows(s, t) ==
    /\ Len(s) = Len(t)
    /\ Range(s) = Range(t)
    /\ Cardinality(Range(t)) < Len(t) =>
          \A r \in Range(t) : Count(s, r) = Count(t, r)

\* the four lists main concatenates, in the order of the source
Streams == legit \o impossible \o velocity \o drift

\* C11: the assembler loses and duplicates nothing: the shuffled list and
\* the sorted output hold exactly the records of the four lists, each as
\* many times as the lists hold it, whatever the shuffle drew.
C11_NothingLostOrDuplicated ==
    /\ pc = "sort" => SameRows(all_txns, Streams)
    /\ pc \in {"write", "done"} => SameRows(df, Streams)

\* C11 witness: an output of records of all four lists that the shuffle
\* and the sort each left in another order than they found.
C11_Witness ==
    /\ pc = "done"
    /\ {r.fraud_type : r \in Range(df)} = FRAUD_TYPES \cup {"None"}
    /\ all_txns # Streams
    /\ df # all_txns
    /\ df # Streams

\* row a stands in front of row b in ascending (user_id, timestamp) order:
\* a's user_id is the smaller string, or the two are equal and a's
\* timestamp is not the later one
Ascending(a, b) ==
    \/ StringLess(a.user_id.digits, b.user_id.digits, 1)
    \/ a.user_id = b.user_id /\ a.timestamp <= b.timestamp

\* s is in ascending (user_id, timestamp) order
IsSorted(s) == \A i \in 1..(Len(s) - 1) : Ascending(s[i], s[i + 1])

\* C12: the output is in ascending (user_id, timestamp) order: of two
\* consecutive rows, the earlier has the smaller user_id, or the same
\* user_id and a timestamp that is earlier or equal.
C12_OutputAscending ==
    pc \in {"write", "done"} => IsSorted(df)

\* C12 witness: an output of two users, with rows of one user at two
\* timestamps and two rows sharing a key, sorted from a shuffled list that
\* was not in order.
C12_Witness ==
    /\ pc = "done"
    /\ ~IsSorted(all_txns)
    /\ \E i, j \in 1..(Len(df) - 1) :
          /\ df[i].user_id # df[i + 1].user_id
          /\ df[j].user_id = df[j + 1].user_id
          /\ df[j].timestamp < df[j + 1].timestamp
    /\ \E i \in 1..(Len(df) - 1) :
          /\ df[i].user_id = df[i + 1].user_id
          /\ df[i].timestamp = df[i + 1].timestamp

\* C13: the row order of the output does not depend on the shuffle:
\* whatever the shuffle drew, the output is, row for row, the sort of the
\* list as it was concatenated.
C13_OrderIndependentOfShuffle ==
    pc \in {"write", "done"} => df = SortValues(Streams)

\* what the determinism requirement reads of a record
Tuple(r) == <<r.user_id, r.timestamp, r.amount, r.fraud_type>>
Tuples(s) == [i \in 1..Len(s) |-> Tuple(s[i])]

\* the number of fraud records of s
FraudCount(s) == Cardinality({i \in 1..Len(s) : s[i].is_fraud})

\* a second run of the program has ended
BothDone == run = 2 /\ pc = "done"

\* C14: two runs with the same seed, population size and target counts
\* write the same (user_id, timestamp, amount, fraud_type) tuples, each as
\* many times, and so the same number of records and of fraud records.
C14_SameTuples ==
    BothDone =>
        /\ SameRows(Tuples(df), Tuples(first_run.df))
        /\ Len(df) = Len(first_run.df)
        /\ FraudCount(df) = FraudCount(first_run.df)

\* C14 witness: two finished runs of two users whose seeded generators
\* returned both of their outputs, with a burst of 20 records, and whose
\* datasets are not the same.
C14_Witness ==
    /\ BothDone
    /\ NUM_USERS = 2
    /\ {p[2] : p \in stream} = SeededOutputs
    /\ Len(velocity) = 20
    /\ df # first_run.df

\* C15: two runs with the same seed and parameters write the same dataset:
\* the same rows in the same order, every field equal, the transaction
\* identifier among them.
C15_SameDataset ==
    BothDone => df = first_run.df

\* a record without its transaction identifier
Anonymous(r) == [f \in DOMAIN r \ {"transaction_id"} |-> r[f]]
Anonymized(s) == [i \in 1..Len(s) |-> Anonymous(s[i])]

\* the lists of the four stages and the output, transaction identifiers
\* apart, are those of the first run
SameAsFirstRun ==
    /\ Anonymized(legit) = Anonymized(first_run.legit)
    /\ Anonymized(impossible) = Anonymized(first_run.impossible)
    /\ Anonymized(velocity) = Anonymized(first_run.velocity)
    /\ Anonymized(drift) = Anonymized(first_run.drift)
    /\ Anonymized(df) = Anonymized(first_run.df)

\* C17: the records of the four stages and the assembled output do not
\* depend on the order the stages are run in: a run that calls them in
\* another order ends with the lists and the output of the first run.
C17_SameInAnyOrder ==
    BothDone => SameAsFirstRun

\* the configurations the spec calls invalid, as far as the population
\* size and the target counts go
InvalidConfig ==
    \/ NUM_USERS <= 0
    \/ NUM_TRANSACTIONS <= 0
    \/ FRAUD_IMPOSSIBLE_TRAVEL <= 0
    \/ FRAUD_VELOCITY_SPIKE_USERS <= 0
    \/ FRAUD_BEHAVIORAL_DRIFT <= 0

\* C16: under an invalid configuration no profile and no record is ever
\* generated, no artifact is ever written and the run never ends normally.
C16_InvalidConfigGeneratesNothing ==
    InvalidConfig =>
        /\ users = <<>>
        /\ txns = <<>> /\ legit = <<>> /\ impossible = <<>>
        /\ velocity = <<>> /\ drift = <<>>
        /\ files = {}
        /\ pc # "done"

\* the j-th of the six digits of index i written with zeros in front
SixDigit(i, j) ==
    CASE j = 1 -> (i \div 100000) % 10
      [] j = 2 -> (i \div 10000) % 10
      [] j = 3 -> (i \div 1000) % 10
      [] j = 4 -> (i \div 100) % 10
      [] j = 5 -> (i \div 10) % 10
      [] j = 6 -> i % 10

\* the k-th profile of the list is that of index k - 1: "USR-" and the six
\* digits of the index
HasIndexId(k) ==
    /\ users[k].user_id.prefix = "USR-"
    /\ Len(users[k].user_id.digits) = 6
    /\ \A j \in 1..6 : users[k].user_id.digits[j] = SixDigit(k - 1, j)

\* C18: generate_user_profiles(N) returns exactly N profiles; the k-th
\* of them has the identifier "USR-" followed by the six-digit zero-padded
\* index k - 1, whatever was drawn, and no two identifiers are equal.
C18_ProfileIds ==
    /\ \A k \in 1..Len(users) : HasIndexId(k)
    /\ \A k, l \in 1..Len(users) : users[k].user_id = users[l].user_id => k = l
    /\ pc # "profiles" => Len(users) = NUM_USERS

\* C18 witness: eleven profiles returned, with two home cities among them,
\* the last with the identifier USR-000010.
C18_Witness ==
    /\ pc = "done"
    /\ Len(users) = 11
    /\ Cardinality({users[k].home_city : k \in 1..Len(users)}) = 2
    /\ users[11].user_id = [prefix |-> "USR-", digits |-> <<0, 0, 0, 0, 1, 0>>]

\* the users that own a record of s
Owners(s) == {s[i].user_id : i \in 1..Len(s)}

\* C19: the velocity injector samples its users without replacement: the
\* users still to receive a burst are pairwise distinct and own no burst
\* yet, each iteration gives a burst to one more user, and with
\* 1 <= U <= N the list returned holds the bursts of exactly U users, one
\* burst of 10 to 20 records each.
C19_OneBurstPerUser ==
    /\ pc = "velocity_loop" =>
          /\ \A i, j \in 1..Len(sampled_users) :
                sampled_users[i] = sampled_users[j] => i = j
          /\ \A i \in 1..Len(sampled_users) :
                users[sampled_users[i]].user_id \notin Owners(txns)
          /\ Cardinality(Owners(txns)) + Len(sampled_users)
                = Min(FRAUD_VELOCITY_SPIKE_USERS, NUM_USERS)
    /\ pc \in {"drift", "drift_loop", "assemble"} =>
          /\ FRAUD_VELOCITY_SPIKE_USERS <= NUM_USERS =>
                Cardinality(Owners(velocity)) = FRAUD_VELOCITY_SPIKE_USERS
          /\ \A u \in Owners(velocity) :
                Cardinality({i \in 1..Len(velocity) : velocity[i].user_id = u})
                    \in 10..20

\* C19 witness: two bursts asked for in a population of two, and a list
\* returned with the records of both users.
C19_Witness ==
    /\ pc = "drift"
    /\ FRAUD_VELOCITY_SPIKE_USERS = 2
    /\ NUM_USERS = 2
    /\ Cardinality(Owners(velocity)) = 2

\* the legitimate records produced so far
LegitRecords == IF pc = "legit" THEN txns ELSE legit

\* the end of the window, 2025-12-31 00:00:00, in seconds after its start
WindowEnd == 364 * 24 * 60 * 60

\* every legitimate record is unflagged and untagged, and main has as many
\* of them as it asked for once the sampler has returned
LegitCountAndFlags ==
    /\ \A r \in Range(LegitRecords) : ~r.is_fraud /\ r.fraud_type = "None"
    /\ pc \notin {"profiles", "legit"} => Len(legit) = NUM_TRANSACTIONS

\* C20: generate_legitimate_transactions returns exactly M records, all
\* unflagged and untagged, each with a timestamp strictly after the start
\* of the window and strictly before its end.
C20_LegitStrictlyInsideWindow ==
    /\ LegitCountAndFlags
    /\ \A r \in Range(LegitRecords) : 0 < r.timestamp /\ r.timestamp < WindowEnd

\* C20 as amended: the same, with a timestamp not before the start of the
\* window and not after its end.
C20_LegitInsideWindow ==
    /\ LegitCountAndFlags
    /\ \A r \in Range(LegitRecords) : 0 <= r.timestamp /\ r.timestamp <= WindowEnd

\* C20 witness: the sampler has returned a record stamped with the very
\* start of the window, or with its very end.
C20_Witness ==
    /\ pc \notin {"profiles", "legit"}
    /\ Len(legit) = NUM_TRANSACTIONS
    /\ \E r \in Range(legit) : r.timestamp \in {0, WindowEnd}

\* r names exactly one profile of the population
HasOneProfile(r) ==
    Cardinality({k \in 1..Len(users) : users[k].user_id = r.user_id}) = 1

\* C21: every record, of whichever of the four generating components,
\* carries the user_id of exactly one profile of the population of its run.
C21_RecordsNameOneProfile == EveryRecord(HasOneProfile)

\* C21 witness: a finished output over a population of two, holding
\* records of all four components and records of both users.
C21_Witness ==
    /\ pc = "done"
    /\ NUM_USERS = 2
    /\ {r.fraud_type : r \in Range(df)} = FRAUD_TYPES \cup {"None"}
    /\ Owners(df) = {users[1].user_id, users[2].user_id}

\* the records of s carry pairwise different transaction identifiers
DistinctIds(s) == Cardinality({r.transaction_id : r \in Range(s)}) = Len(s)

\* C22: no two records share a transaction_id, whether they come from the
\* same component or from different ones: in the lists the components
\* return taken together, in the merged list and in the sorted output.
C22_TransactionIdsUnique ==
    /\ DistinctIds(legit \o impossible \o velocity \o drift)
    /\ DistinctIds(txns)
    /\ DistinctIds(all_txns)
    /\ DistinctIds(df)

\* C22 witness: a written output holding a legitimate record, both records
\* of a travel pair, a whole burst and a drift record.
C22_Witness ==
    /\ pc = "done"
    /\ Len(legit) >= 1
    /\ Len(impossible) >= 2
    /\ Len(velocity) >= MicroCountRange.lo
    /\ Len(drift) >= 1
    /\ Len(df) = Len(legit) + Len(impossible) + Len(velocity) + Len(drift)

\* the positions of main from the concatenation to the write
MergeStages == {"assemble", "shuffle", "sort", "write"}

\* the legitimate sampler and the three injectors have all returned, each
\* with the list it was asked for, and none is under way or still to run
AllReturned ==
    /\ todo = <<>>
    /\ txns = <<>>
    /\ sampled_users = <<>>
    /\ Len(legit) = NUM_TRANSACTIONS
    /\ Len(impossible) = 2 * SampleSize(FRAUD_IMPOSSIBLE_TRAVEL, users)
    /\ Cardinality(Owners(velocity)) = SampleSize(FRAUD_VELOCITY_SPIKE_USERS, users)
    /\ Len(drift) = SampleSize(FRAUD_BEHAVIORAL_DRIFT, users)

Written == "raw_transactions.parquet" \in files

\* C23: the merge is the single join point. The concatenation, the shuffle
\* and the sort start only when the legitimate sampler and the three
\* injectors have all returned; from the concatenation on, no step adds a
\* record to any of the four lists or builds one; the transaction file is
\* written by the step that follows the sort, from the sorted frame of the
\* merged list, and nothing changes once it is written.
C23_MergeIsJoinPoint ==
    [][ /\ pc \in MergeStages => AllReturned
        /\ pc \in MergeStages => UNCHANGED <<users, localVars, resultVars>>
        /\ pc' \in MergeStages \ {"assemble"} =>
              Len(all_txns') = Len(legit \o impossible \o velocity \o drift)
        /\ Written' /\ ~Written =>
              pc = "write" /\ df = SortValues(all_txns) /\ IsSorted(df)
        /\ Written => UNCHANGED <<users, localVars, resultVars, all_txns, df>>
      ]_vars

\* C23 witness: the lists of all four components are merged, shuffled and
\* sorted and the transaction file is about to be written.
C23_Witness ==
    /\ pc = "write"
    /\ ~Written
    /\ \A s \in {legit, impossible, velocity, drift} : s # <<>>
    /\ df # all_txns
    /\ all_txns # legit \o impossible \o velocity \o drift

(***************************************************************************)
(* The ground speed a travel pair implies: great-circle distance over      *)
(* elapsed time.  Angles in degrees are in 1/10000 of a degree, angles in  *)
(* radians and the values of sine and cosine in 1/10000.                   *)
(***************************************************************************)
Unit == 100 * 100

HalfTurn == 180 * Unit

\* pi and pi / 2 in 1/10000
Pi == 31416

HalfPi == 15708

Abs(x) == IF x < 0 THEN 0 - x ELSE x

\* degrees to radians: pi / 180 is 71 / 4068 to seven digits
Radians(deg) == (deg * 71) \div 4068

\* the cosine of x, 0 <= x <= pi / 2, by its series up to the tenth power
CosQuarter(x) ==
    LET x2 == (x * x) \div Unit
        t1 == x2 \div 2
        t2 == (t1 * x2) \div (12 * Unit)
        t3 == (t2 * x2) \div (30 * Unit)
        t4 == (t3 * x2) \div (56 * Unit)
        t5 == (t4 * x2) \div (90 * Unit)
    IN  Unit - t1 + t2 - t3 + t4 - t5

\* the cosine of x, 0 <= x <= pi
CosRad(x) == IF x > HalfPi THEN 0 - CosQuarter(Pi - x) ELSE CosQuarter(x)

\* the cosine of an angle of -360 to 360 degrees
CosDeg(deg) ==
    LET a == Abs(deg)
        b == IF a > HalfTurn THEN 2 * HalfTurn - a ELSE a
    IN  IF 2 * b > HalfTurn THEN 0 - CosQuarter(Radians(HalfTurn - b))
        ELSE CosQuarter(Radians(b))

\* the sine of an angle of -90 to 90 degrees
SinDeg(deg) ==
    LET s == CosQuarter(Radians((HalfTurn \div 2) - Abs(deg)))
    IN  IF deg < 0 THEN 0 - s ELSE s

\* the cosine of the central angle between the cities i and j
CosCentralAngle(i, j) ==
    (SinDeg(LAT[i]) * SinDeg(LAT[j])
       + ((CosDeg(LAT[i]) * CosDeg(LAT[j])) \div Unit) * CosDeg(LON[i] - LON[j]))
    \div Unit

\* the mean radius of the earth, in miles
EarthRadiusMiles == 3959

\* the greatest whole number of miles in lo..hi whose arc has a cosine of
\* at least c: the arc cosine of c on the earth, by bisection
RECURSIVE ArcMiles(_, _, _)
ArcMiles(c, lo, hi) ==
    IF lo >= hi THEN lo
    ELSE LET mid == (lo + hi + 1) \div 2
         IN  IF CosRad((mid * Unit) \div EarthRadiusMiles) >= c
             THEN ArcMiles(c, mid, hi)
             ELSE ArcMiles(c, lo, mid - 1)

\* the great-circle distance between the cities i and j, in whole miles
GreatCircleMiles(i, j) ==
    ArcMiles(CosCentralAngle(i, j), 0, (Pi * EarthRadiusMiles) \div Unit)

\* miles covered in a number of seconds, as miles per hour
GroundSpeedMph(miles, seconds) == (miles * 3600) \div seconds

\* the dashboard's threshold of an impossible ground speed
SPEED_THRESHOLD_MPH == 500

CityIndex(name) == CHOOSE i \in 1..Len(CITIES) : CITIES[i] = name

\* the distances of the catalog's pairs, each with its two cities
CATALOG_MILES ==
    { <<DISTANT_PAIRS[p][1], DISTANT_PAIRS[p][2],
        GreatCircleMiles(DISTANT_PAIRS[p][1], DISTANT_PAIRS[p][2])>> :
      p \in 1..Len(DISTANT_PAIRS) }

\* the great-circle distance between the cities i and j, read from the
\* catalog's distances where the catalog has the pair
Miles(i, j) ==
    IF \E t \in CATALOG_MILES : t[1] = i /\ t[2] = j
    THEN (CHOOSE t \in CATALOG_MILES : t[1] = i /\ t[2] = j)[3]
    ELSE GreatCircleMiles(i, j)

\* the speed the records a and b of one user imply
ImpliedSpeed(a, b) ==
    GroundSpeedMph(Miles(CityIndex(a.city), CityIndex(b.city)),
                   b.timestamp - a.timestamp)

\* every entry of the catalog names two different cities of CITIES whose
\* distance, covered in the longest gap, is ten times the threshold speed
CatalogFarAboveThreshold ==
    \A t \in CATALOG_MILES :
       /\ t[1] \in 1..Len(CITIES)
       /\ t[2] \in 1..Len(CITIES)
       /\ t[1] # t[2]
       /\ GroundSpeedMph(t[3], 60 * GapMinutesRange.hi) >= 10 * SPEED_THRESHOLD_MPH

\* C24: every entry of DISTANT_PAIRS names two different entries of CITIES
\* whose great-circle distance, covered in the longest gap of 10 minutes,
\* is a ground speed of at least ten times the 500 mph threshold; and
\* every pair the injector emits, whatever pair and gap it drew, implies at
\* least that speed.
C24_PairsFarAboveThreshold ==
    /\ CatalogFarAboveThreshold
    /\ \A k \in 1..(Len(TravelRecords) \div 2) :
          ImpliedSpeed(TravelRecords[2 * k - 1], TravelRecords[2 * k])
             >= 10 * SPEED_THRESHOLD_MPH

\* C24 witness: the injector returned the nearest pair of the catalog,
\* Mumbai and Dubai, at the longest gap; the speed implied is under
\* fifteen times the threshold.
C24_Witness ==
    /\ Len(impossible) = 2
    /\ impossible[1].city = "Mumbai"
    /\ impossible[2].city = "Dubai"
    /\ impossible[2].timestamp - impossible[1].timestamp = 60 * GapMinutesRange.hi
    /\ ImpliedSpeed(impossible[1], impossible[2]) < 15 * SPEED_THRESHOLD_MPH

\* the records the three injectors have built so far
InjectedRecords ==
    Range(impossible) \cup Range(velocity) \cup Range(drift)
       \cup {r \in Range(txns) : r.is_fraud}

\* C25: every record an injector builds has its timestamp inside the window
\* of the legitimate sampler, from 2025-01-01 00:00:00 to
\* 2025-12-31 00:00:00, the second record of a travel pair and the records
\* of a burst included, whatever base timestamp was drawn.
C25_InjectedInsideWindow ==
    \A r \in InjectedRecords : 0 <= r.timestamp /\ r.timestamp <= WindowEnd

\* round(avg_amount + m * std_amount, 2) of user u, m in thousandths
Drifted(u, m) == RoundDiv(u.avg_amount * 1000 + m * u.std_amount, 1000)

\* r.amount is max(round(avg + m * std, 2), 500.0) for a real m of
\* [3.5, 8.0]: rounding is monotone and m ranges over an interval, so the
\* amounts are those from the value at 3.5 to the value at 8.0, floored
HasDriftAmount(r) ==
    /\ Max(Drifted(Owner(r), SigmaMultiplierRange.lo), 50000) <= r.amount
    /\ r.amount <= Max(Drifted(Owner(r), SigmaMultiplierRange.hi), 50000)
    /\ r.amount >= 50000

\* C26: the amount of every behavioral-drift record is
\* max(round(avg_amount + m * std_amount, 2), 500.0) for a multiplier m of
\* [3.5, 8.0] and the profile of its owner, and so never under 500, also
\* when avg_amount + 8 * std_amount of the owner is under 500.
C26_DriftAmountFloored == \A r \in DriftRecords : HasDriftAmount(r)

\* C26 witness: a drift record of exactly 500.00 whose owner's mean and
\* eight standard deviations together stay under 500, and so the floor
\* decided the amount.
C26_Witness ==
    \E r \in Range(drift) :
       /\ r.amount = 50000
       /\ Drifted(Owner(r), SigmaMultiplierRange.hi) < 50000

(***************************************************************************)
(* run_pipeline.py: the runner of the whole pipeline.  A subprocess is     *)
(* known by its return code only, a COPY by whether it raised.             *)
(***************************************************************************)
\* the return codes a subprocess is taken to end with
ReturnCodes == {0, 1, 2}

\* mutation: only a negative return code counts as a failure
Negative(returncode) == returncode < 0

\* result.returncode != 0
Failed(returncode) == returncode # 0

gold_tables == << "gold_risk_scores", "gold_user_risk_profiles",
                  "gold_fraud_attribution", "gold_model_evaluation",
                  "gold_threshold_calibration" >>

\* subprocess.run([...]) of the step named cmd, returning returncode
Subprocess(cmd, returncode) ==
    /\ started' = Append(started, cmd)
    /\ returncodes' = Append(returncodes, returncode)

\* print(line), a line being the sequence of its parts
Prints(line) == out' = Append(out, line)

\* sys.exit(1)
SysExit ==
    /\ exit_status' = <<1>>
    /\ step' = "exited"

\* run_generator()
RunGenerator ==
    /\ step = "run_generator"
    /\ \E returncode \in ReturnCodes :
          /\ Subprocess("generator", returncode)
          /\ IF Failed(returncode)
             THEN Prints(<<"ERROR: Generator failed!">>) /\ SysExit
             ELSE /\ Prints(<<"Bronze layer complete.">>)
                  /\ step' = "dbt_run"
                  /\ UNCHANGED exit_status
    /\ UNCHANGED <<generatorVars, conn, copied, exported>>

\* run_dbt(), up to the end of "dbt run"
DbtRun ==
    /\ step = "dbt_run"
    /\ \E returncode \in ReturnCodes :
          /\ Subprocess("dbt run", returncode)
          /\ IF Failed(returncode)
             THEN Prints(<<"ERROR: dbt run failed!">>) /\ SysExit
             ELSE /\ step' = "dbt_test"
                  /\ UNCHANGED <<out, exit_status>>
    /\ UNCHANGED <<generatorVars, conn, copied, exported>>

\* mutation: a failing dbt test ends the process like a failing dbt run
DbtTestFatal ==
    /\ step = "dbt_test"
    /\ \E returncode \in ReturnCodes :
          /\ Subprocess("dbt test", returncode)
          /\ IF Failed(returncode)
             THEN Prints(<<"ERROR: dbt test failed!">>) /\ SysExit
             ELSE /\ Prints(<<"All dbt tests passed.">>)
                  /\ step' = "export_gold_tables"
                  /\ UNCHANGED exit_status
    /\ UNCHANGED <<generatorVars, conn, copied, exported>>

\* run_dbt(), the "dbt test" that follows "dbt run"
DbtTest ==
    /\ step = "dbt_test"
    /\ \E returncode \in ReturnCodes :
          /\ Subprocess("dbt test", returncode)
          /\ IF Failed(returncode)
             THEN Prints(<<"WARNING: Some dbt tests failed. Check output above.">>)
             ELSE Prints(<<"All dbt tests passed.">>)
    /\ step' = "export_gold_tables"
    /\ UNCHANGED <<generatorVars, conn, copied, exported, exit_status>>

\* export_gold_tables(), up to its loop: conn = duckdb.connect(DB_PATH)
Connect ==
    /\ step = "export_gold_tables"
    /\ started' = Append(started, "export")
    /\ conn' = "open"
    /\ step' = "export_loop"
    /\ UNCHANGED <<generatorVars, returncodes, out, copied, exported, exit_status>>

\* one iteration of "for table in gold_tables": the COPY succeeds and the
\* file is reported, or an exception is caught and reported
ExportTable ==
    /\ step = "export_loop"
    /\ Len(copied) < Len(gold_tables)
    /\ LET table == gold_tables[Len(copied) + 1]
       IN  /\ copied' = Append(copied, table)
           /\ \E raised \in BOOLEAN :
                 IF raised
                 THEN /\ Prints(<<"WARNING: Could not export", table>>)
                      /\ UNCHANGED exported
                 ELSE /\ Prints(<<"Exported", table>>)
                      /\ exported' = exported \cup {table}
    /\ UNCHANGED <<generatorVars, step, started, returncodes, conn, exit_status>>

\* conn.close(), after the loop
Close ==
    /\ step = "export_loop"
    /\ Len(copied) = Len(gold_tables)
    /\ conn' = "closed"
    /\ step' = "generate_dbt_docs"
    /\ UNCHANGED <<generatorVars, started, returncodes, out, copied, exported,
                   exit_status>>

\* generate_dbt_docs()
GenerateDbtDocs ==
    /\ step = "generate_dbt_docs"
    /\ \E returncode \in ReturnCodes :
          /\ Subprocess("dbt docs", returncode)
          /\ IF Failed(returncode)
             THEN Prints(<<"WARNING: dbt docs generation failed.">>)
             ELSE Prints(<<"dbt docs generated -> riskmetric/target/">>)
    /\ step' = "print_summary"
    /\ UNCHANGED <<generatorVars, conn, copied, exported, exit_status>>

\* print_summary(), and the end of main
PrintSummary ==
    /\ step = "print_summary"
    /\ started' = Append(started, "summary")
    /\ Prints(<<"Total pipeline time">>)
    /\ step' = "end"
    /\ exit_status' = <<0>>
    /\ UNCHANGED <<generatorVars, returncodes, conn, copied, exported>>

\* run_pipeline.main(): the generator is a subprocess, its own state idle
InitPipeline ==
    /\ NUM_USERS = 1
    /\ NUM_TRANSACTIONS = 1
    /\ FRAUD_IMPOSSIBLE_TRAVEL = 1
    /\ FRAUD_VELOCITY_SPIKE_USERS = 1
    /\ FRAUD_BEHAVIORAL_DRIFT = 1
    /\ todo = <<>>
    /\ Blank
    /\ OneRun

NextPipeline ==
    \/ RunGenerator
    \/ DbtRun
    \/ DbtTest
    \/ Connect
    \/ ExportTable
    \/ Close
    \/ GenerateDbtDocs
    \/ PrintSummary

SpecPipeline == InitPipeline /\ [][NextPipeline]_vars

\* the steps of the runner, in the order main calls them
RunnerOrder ==
    << "generator", "dbt run", "dbt test", "export", "dbt docs", "summary" >>

\* the k-th subprocess has run and returned a non-zero code
ReturnedNonZero(k) == Len(returncodes) >= k /\ returncodes[k] # 0

\* C27: the runner starts its steps in the order generator, dbt run,
\* dbt test, export of the gold tables, dbt docs, summary.  When the
\* generator (subprocess 1) or dbt run (subprocess 2) returns a non-zero
\* code, the process has exited with status 1 and that step is the last
\* one started: no connection, no COPY, no export.  So whenever the export
\* has been started, the generator and dbt run both returned 0.
C27_OrderAndFatalSteps ==
    /\ Len(started) <= Len(RunnerOrder)
    /\ started = SubSeq(RunnerOrder, 1, Len(started))
    /\ \A k \in 1..2 :
          ReturnedNonZero(k) =>
             /\ exit_status = <<1>>
             /\ Len(started) = k
             /\ Len(returncodes) = k
             /\ conn = "none" /\ copied = <<>> /\ exported = {}
             /\ ~ ENABLED NextPipeline
    /\ (Len(started) >= 4 \/ conn # "none" \/ copied # <<>> \/ exported # {}) =>
          /\ Len(returncodes) >= 2
          /\ returncodes[1] = 0
          /\ returncodes[2] = 0

\* C27 witness: the generator succeeded, dbt run returned a non-zero code
\* and the process has exited with status 1.
C27_Witness ==
    /\ started = <<"generator", "dbt run">>
    /\ returncodes[1] = 0
    /\ returncodes[2] # 0
    /\ exit_status = <<1>>

Warned(line) == \E k \in 1..Len(out) : out[k] = line

\* C28: a failing dbt test (subprocess 3), a failing export of a table and
\* a failing dbt docs (subprocess 4) do not end the process: each leaves a
\* warning in the output and the runner goes on.  The tables are tried in
\* the order of the list, each one whatever happened to those before it;
\* a table is exported exactly when its COPY did not raise; the
\* connection is open during the loop and closed from the end of the loop
\* on; until the summary is done there is always a next step, and at the
\* end all six steps were started and the status is 0.
C28_NonFatalFailures ==
    /\ ReturnedNonZero(3) =>
          /\ exit_status # <<1>>
          /\ Warned(<<"WARNING: Some dbt tests failed. Check output above.">>)
    /\ ReturnedNonZero(4) =>
          /\ exit_status # <<1>>
          /\ Warned(<<"WARNING: dbt docs generation failed.">>)
    /\ copied = SubSeq(gold_tables, 1, Len(copied))
    /\ \A k \in 1..Len(copied) :
          /\ copied[k] \in exported <=> Warned(<<"Exported", copied[k]>>)
          /\ copied[k] \notin exported <=>
                Warned(<<"WARNING: Could not export", copied[k]>>)
    /\ exported \subseteq {copied[k] : k \in 1..Len(copied)}
    /\ step = "export_loop" => conn = "open"
    /\ step \in {"generate_dbt_docs", "print_summary", "end"} =>
          conn = "closed" /\ copied = gold_tables
    /\ Len(started) >= 3 /\ step # "end" => ENABLED NextPipeline
    /\ step = "end" => started = RunnerOrder /\ exit_status = <<0>>

\* C28 witness: the run ended with status 0 after a failing dbt test, a
\* COPY of the second table that raised, a third table exported after it
\* and a failing dbt docs.
C28_Witness ==
    /\ step = "end"
    /\ ReturnedNonZero(3)
    /\ ReturnedNonZero(4)
    /\ gold_tables[2] \notin exported
    /\ gold_tables[3] \in exported
    /\ conn = "closed"

====
